---- MODULE Spec2Model ----
(***************************************************************************)
(* ITUSB1Device (itusb1device.cpp): the attach / detach sequences on the   *)
(* !UPEN (GPIO.1) and !UDEN (GPIO.2) lines and the VBUS current            *)
(* measurement on the LTC2312, over a CP2130 bridge.  The CP2130 driver is *)
(* the environment: its calls are recorded in the order they are made, and *)
(* any of them may report an error to the caller's error counter.          *)
(***************************************************************************)
EXTENDS Integers, Naturals, Sequences, FiniteSets, TLC

\* ---------------------------------------------------------------- bounds
\* Largest value of the caller's error counter that is explored.
MaxErr == 1

\* ------------------------------------------------------------- constants
N_SAMPLES == 5

\* Vectors spiRead is seen to return: the two bytes the LTC2312 shifts out
\* (raw codes 291 and 4095), and what a short transfer leaves.
SpiVectors == {<<18, 52>>, <<255, 255>>, <<255>>}

\* ------------------------------------------------------- CP2130 (driver)
\* GPIO bitmaps are sets of pin numbers.
BMGPIO1 == {1}
BMGPIO2 == {2}
BMGPIOS == 0..10

\* What a driver call may add to the caller's error counter.
ErrIncs == {0, 1}

VARIABLES
    gpio,             \* level of GPIO.1 and GPIO.2 (TRUE = high)
    cs0,              \* chip select of channel 0 is enabled
    errcnt,           \* the caller's error counter (int &errcnt)
    op,               \* the operation called last: "none", "attach", "detach", "getCurrent"
    prevOp,           \* the operation called before it
    pc,               \* source line the running operation is at, "idle" when none runs
    p0, d0, err0,     \* power status, data status and errcnt when op was called
    log,              \* driver writes and sleeps of the running operation, in order
    reads,            \* vectors cp2130_.spiRead returned to the running operation
    currentCodeSum,   \* the local of getCurrent
    i,                \* the loop index of getCurrent
    result            \* the float the operation called last returned (zero when void)

vars == <<gpio, cs0, errcnt, op, prevOp, pc, p0, d0, err0, log, reads, currentCodeSum, i, result>>

\* ----------------------------------------------------- driver operations
\* A driver call that writes pins, as the pins it drives high and the pins it
\* drives low; a sleep, as its length in microseconds.
WriteEvent(fn, hi, lo) == [fn |-> fn, hi |-> hi, lo |-> lo, us |-> 0]
SleepEvent(us) == [fn |-> "usleep", hi |-> {}, lo |-> {}, us |-> us]

\* getGPIO1 / getGPIO2: the pin level, or anything when the transfer failed.
getGPIO(n, inc) == IF inc = 0 THEN {gpio[n]} ELSE BOOLEAN

setGPIO1(level) ==
    WriteEvent("setGPIO1", IF level THEN BMGPIO1 ELSE {}, IF level THEN {} ELSE BMGPIO1)
setGPIO2(level) ==
    WriteEvent("setGPIO2", IF level THEN BMGPIO2 ELSE {}, IF level THEN {} ELSE BMGPIO2)
\* setGPIOs(values, mask): the pins of mask take their bit of values, at once.
setGPIOs(values, mask) == WriteEvent("setGPIOs", mask \cap values, mask \ values)

\* The pin levels after the write call.
Driven(call) ==
    [n \in DOMAIN gpio |-> IF n \in call.hi THEN TRUE
                           ELSE IF n \in call.lo THEN FALSE ELSE gpio[n]]

\* What a write leaves: the new value, or possibly the old one when the
\* transfer failed.
WriteOutcomes(old, new, inc) == IF inc = 0 THEN {new} ELSE {old, new}

\* spiRead(2, ...): two bytes, or fewer when the transfer came short.
spiRead == SpiVectors

\* ------------------------------------------------------------ arithmetic
RECURSIVE Pow2(_)
Pow2(n) == IF n = 0 THEN 1 ELSE 2 * Pow2(n - 1)

\* a << n and a >> n on non-negative ints
ShiftLeft(a, n) == a * Pow2(n)
ShiftRight(a, n) == a \div Pow2(n)

\* a | b on non-negative ints
RECURSIVE BitOr(_, _)
BitOr(a, b) ==
    IF a = 0 THEN b
    ELSE IF b = 0 THEN a
    ELSE (IF a % 2 = 1 \/ b % 2 = 1 THEN 1 ELSE 0) + 2 * BitOr(a \div 2, b \div 2)

\* static_cast<uint16_t>
ToUint16(x) == x % 65536

\* size_t addition, at the narrowest width a size_t may have (16 bits); a
\* wider size_t wraps later.
AddSizeT(a, b) == (a + b) % 65536

\* A float is m * 2^e with 2^23 <= m < 2^24, or zero.
FloatZero == [m |-> 0, e |-> 0]

\* (n / d) * 2^e brought to 2^23 <= n / d < 2^24
RECURSIVE Normalise(_, _, _)
Normalise(n, d, e) ==
    IF n >= d * 16777216 THEN Normalise(n, 2 * d, e + 1)
    ELSE IF n < d * 8388608 THEN Normalise(2 * n, d, e - 1)
    ELSE [n |-> n, d |-> d, e |-> e]

\* The float nearest to (n / d) * 2^e, ties to even (n >= 0, d > 0).
FloatRound(n, d, e) ==
    IF n = 0 THEN FloatZero
    ELSE LET x == Normalise(n, d, e)
             q == x.n \div x.d
             r == x.n % x.d
             up == 2 * r > x.d \/ (2 * r = x.d /\ q % 2 = 1)
             m == IF up THEN q + 1 ELSE q
         IN  IF m = 16777216 THEN [m |-> 8388608, e |-> x.e + 1]
                             ELSE [m |-> m, e |-> x.e]

\* An integer below 2^24 as a float (exact).
FloatOfInt(n) == FloatRound(n, 1, 0)

\* The float product f * k, k a small integer.
FloatTimes(f, k) == FloatRound(f.m * k, 1, f.e)

\* a <= b on non-negative floats
FloatLeq(a, b) ==
    \/ a.m = 0
    \/ b.m # 0 /\ (a.e < b.e \/ (a.e = b.e /\ a.m <= b.m))

\* ------------------------------------------------------------- the class
\* CP2130::BMGPIOS * !value
BitmapTimes(bm, b) == IF b THEN bm ELSE {}

\* getRawCurrent with the first byte shifted by a whole byte.
getRawCurrent_Shift8(read) ==
    IF Len(read) = 2
    THEN ToUint16(BitOr(ShiftLeft(read[1], 8), ShiftRight(read[2], 4)))
    ELSE 0

\* read.size() == 2 ? static_cast<uint16_t>(read[0] << 4 | read[1] >> 4) : 0
getRawCurrent(read) ==
    IF Len(read) = 2
    THEN ToUint16(BitOr(ShiftLeft(read[1], 4), ShiftRight(read[2], 4)))
    ELSE 0

\* getUSBDataStatus without the negation of !UDEN.
getUSBDataStatus_NotNegated(gpio2) == gpio2

getUSBDataStatus(gpio2) == ~gpio2
getUSBPowerStatus(gpio1) == ~gpio1

\* switchUSB without the negation of value.
switchUSB_NotNegated(value) == setGPIOs(BitmapTimes(BMGPIOS, value), BMGPIO1 \cup BMGPIO2)

\* switchUSBPower without the negation of value.
switchUSBPower_NotNegated(value) == setGPIO1(value)

switchUSB(value) == setGPIOs(BitmapTimes(BMGPIOS, ~value), BMGPIO1 \cup BMGPIO2)
switchUSBData(value) == setGPIO2(~value)
switchUSBPower(value) == setGPIO1(~value)

PowerOn == getUSBPowerStatus(gpio[1])
DataOn == getUSBDataStatus(gpio[2])

Init ==
    /\ gpio \in [{1, 2} -> BOOLEAN]
    /\ cs0 = FALSE
    /\ errcnt = 0
    /\ op = "none"
    /\ prevOp = "none"
    /\ pc = "idle"
    /\ p0 = getUSBPowerStatus(gpio[1])
    /\ d0 = getUSBDataStatus(gpio[2])
    /\ err0 = 0
    /\ log = <<>>
    /\ reads = <<>>
    /\ currentCodeSum = 0
    /\ i = 0
    /\ result = FloatZero

\* The caller calls operation o, control enters it at source line first.
Call(o, first) ==
    /\ pc = "idle"
    /\ op' = o
    /\ prevOp' = op
    /\ pc' = first
    /\ p0' = PowerOn
    /\ d0' = DataOn
    /\ err0' = errcnt
    /\ log' = <<>>
    /\ reads' = <<>>
    /\ currentCodeSum' = 0
    /\ i' = 0
    /\ result' = FloatZero
    /\ UNCHANGED <<gpio, cs0, errcnt>>

\* A step that only writes the pins: the driver call, then control at line next.
GpioWrite(at, call, next) ==
    /\ pc = at
    /\ \E inc \in ErrIncs :
          /\ errcnt + inc <= MaxErr
          /\ errcnt' = errcnt + inc
          /\ gpio' \in WriteOutcomes(gpio, Driven(call), inc)
    /\ log' = Append(log, call)
    /\ pc' = next
    /\ UNCHANGED <<cs0, op, prevOp, p0, d0, err0, reads, currentCodeSum, i, result>>

\* usleep(us)
Sleep(at, us, next) ==
    /\ pc = at
    /\ log' = Append(log, SleepEvent(us))
    /\ pc' = next
    /\ UNCHANGED <<gpio, cs0, errcnt, op, prevOp, p0, d0, err0, reads, currentCodeSum, i, result>>

\* ---------------------------------------------------------------- attach
CallAttach == Call("attach", "a57")

\* Attach57 with == for !=.
Attach57_Equal ==
    /\ pc = "a57"
    /\ \E ip \in ErrIncs, id \in ErrIncs :
          \E vp \in getGPIO(1, ip), vd \in getGPIO(2, id) :
             /\ errcnt + ip + id <= MaxErr
             /\ errcnt' = errcnt + ip + id
             /\ pc' = IF getUSBPowerStatus(vp) = getUSBDataStatus(vd) THEN "a58" ELSE "a61"
    /\ UNCHANGED <<gpio, cs0, op, prevOp, p0, d0, err0, log, reads, currentCodeSum, i, result>>

\* Attach57 that takes the unusual-state branch whatever the statuses are.
Attach57_Always ==
    /\ pc = "a57"
    /\ \E ip \in ErrIncs, id \in ErrIncs :
          \E vp \in getGPIO(1, ip), vd \in getGPIO(2, id) :
             /\ errcnt + ip + id <= MaxErr
             /\ errcnt' = errcnt + ip + id
             /\ pc' = "a58"
    /\ UNCHANGED <<gpio, cs0, op, prevOp, p0, d0, err0, log, reads, currentCodeSum, i, result>>

\* if (getUSBPowerStatus() != getUSBDataStatus())
Attach57 ==
    /\ pc = "a57"
    /\ \E ip \in ErrIncs, id \in ErrIncs :
          \E vp \in getGPIO(1, ip), vd \in getGPIO(2, id) :
             /\ errcnt + ip + id <= MaxErr
             /\ errcnt' = errcnt + ip + id
             /\ pc' = IF getUSBPowerStatus(vp) # getUSBDataStatus(vd) THEN "a58" ELSE "a61"
    /\ UNCHANGED <<gpio, cs0, op, prevOp, p0, d0, err0, log, reads, currentCodeSum, i, result>>

Attach58 == GpioWrite("a58", switchUSB(FALSE), "a59")
Attach59 == Sleep("a59", 100000, "a61")

\* if (!getUSBPowerStatus() && !getUSBDataStatus()): the data status is read
\* only when the power status was read as off.
Attach61 ==
    /\ pc = "a61"
    /\ \E ip \in ErrIncs, id \in ErrIncs :
          \E vp \in getGPIO(1, ip), vd \in getGPIO(2, id) :
             /\ getUSBPowerStatus(vp) => id = 0 /\ vd = gpio[2]
             /\ errcnt + ip + id <= MaxErr
             /\ errcnt' = errcnt + ip + id
             /\ pc' = IF ~getUSBPowerStatus(vp) /\ ~getUSBDataStatus(vd) THEN "a62" ELSE "idle"
    /\ UNCHANGED <<gpio, cs0, op, prevOp, p0, d0, err0, log, reads, currentCodeSum, i, result>>

Attach62 == GpioWrite("a62", switchUSBPower(TRUE), "a63")
Attach63 == Sleep("a63", 100000, "a64")
Attach64 == GpioWrite("a64", switchUSBData(TRUE), "a65")
Attach65 == Sleep("a65", 100000, "idle")

\* ---------------------------------------------------------------- detach
CallDetach == Call("detach", "d78")

\* Detach79 that switches VBUS off where the data lines are to be disconnected.
Detach79_PowerFirst == GpioWrite("d79", switchUSBPower(FALSE), "d80")

\* Detach80 without the sleep.
Detach80_NoSleep ==
    /\ pc = "d80"
    /\ pc' = "d82"
    /\ UNCHANGED <<gpio, cs0, errcnt, op, prevOp, p0, d0, err0, log, reads, currentCodeSum, i, result>>

\* if (getUSBDataStatus())
Detach78 ==
    /\ pc = "d78"
    /\ \E id \in ErrIncs : \E vd \in getGPIO(2, id) :
          /\ errcnt + id <= MaxErr
          /\ errcnt' = errcnt + id
          /\ pc' = IF getUSBDataStatus(vd) THEN "d79" ELSE "d82"
    /\ UNCHANGED <<gpio, cs0, op, prevOp, p0, d0, err0, log, reads, currentCodeSum, i, result>>

Detach79 == GpioWrite("d79", switchUSBData(FALSE), "d80")
Detach80 == Sleep("d80", 100000, "d82")

\* if (getUSBPowerStatus())
Detach82 ==
    /\ pc = "d82"
    /\ \E ip \in ErrIncs : \E vp \in getGPIO(1, ip) :
          /\ errcnt + ip <= MaxErr
          /\ errcnt' = errcnt + ip
          /\ pc' = IF getUSBPowerStatus(vp) THEN "d83" ELSE "idle"
    /\ UNCHANGED <<gpio, cs0, op, prevOp, p0, d0, err0, log, reads, currentCodeSum, i, result>>

Detach83 == GpioWrite("d83", switchUSBPower(FALSE), "d84")
Detach84 == Sleep("d84", 100000, "idle")

\* ------------------------------------------------------------ getCurrent
CallGetCurrent == Call("getCurrent", "g92")

\* A step that only sets the chip select of channel 0.
CsWrite(at, fn, value, next) ==
    /\ pc = at
    /\ \E inc \in ErrIncs :
          /\ errcnt + inc <= MaxErr
          /\ errcnt' = errcnt + inc
          /\ cs0' \in WriteOutcomes(cs0, value, inc)
    /\ log' = Append(log, WriteEvent(fn, {}, {}))
    /\ pc' = next
    /\ UNCHANGED <<gpio, op, prevOp, p0, d0, err0, reads, currentCodeSum, i, result>>

\* cp2130_.selectCS(0, errcnt, errstr)
GetCurrent92 == CsWrite("g92", "selectCS", TRUE, "g93")

\* GetCurrent93 that keeps the first reading as the start of the sum.
GetCurrent93_Kept ==
    /\ pc = "g93"
    /\ \E inc \in ErrIncs, read \in spiRead :
          /\ errcnt + inc <= MaxErr
          /\ errcnt' = errcnt + inc
          /\ reads' = Append(reads, read)
          /\ currentCodeSum' = getRawCurrent(read)
    /\ i' = 0
    /\ pc' = "g95"
    /\ UNCHANGED <<gpio, cs0, op, prevOp, p0, d0, err0, log, result>>

\* getRawCurrent(errcnt, errstr), the reading that is discarded; then
\* currentCodeSum = 0 and i = 0
GetCurrent93 ==
    /\ pc = "g93"
    /\ \E inc \in ErrIncs, read \in spiRead :
          /\ errcnt + inc <= MaxErr
          /\ errcnt' = errcnt + inc
          /\ reads' = Append(reads, read)
    /\ currentCodeSum' = 0
    /\ i' = 0
    /\ pc' = "g95"
    /\ UNCHANGED <<gpio, cs0, op, prevOp, p0, d0, err0, log, result>>

\* GetCurrent96 that returns at once when the read reports an error.
GetCurrent96_Abort ==
    /\ pc = "g95"
    /\ i < N_SAMPLES
    /\ \E inc \in ErrIncs, read \in spiRead :
          /\ errcnt + inc <= MaxErr
          /\ errcnt' = errcnt + inc
          /\ reads' = Append(reads, read)
          /\ currentCodeSum' = AddSizeT(currentCodeSum, getRawCurrent(read))
          /\ pc' = IF inc = 0 THEN "g95" ELSE "idle"
    /\ i' = i + 1
    /\ UNCHANGED <<gpio, cs0, op, prevOp, p0, d0, err0, log, result>>

\* i < N_SAMPLES: currentCodeSum += getRawCurrent(errcnt, errstr); ++i
GetCurrent96 ==
    /\ pc = "g95"
    /\ i < N_SAMPLES
    /\ \E inc \in ErrIncs, read \in spiRead :
          /\ errcnt + inc <= MaxErr
          /\ errcnt' = errcnt + inc
          /\ reads' = Append(reads, read)
          /\ currentCodeSum' = AddSizeT(currentCodeSum, getRawCurrent(read))
    /\ i' = i + 1
    /\ pc' = "g95"
    /\ UNCHANGED <<gpio, cs0, op, prevOp, p0, d0, err0, log, result>>

\* the loop is left; usleep(100)
GetCurrent98 ==
    /\ ~(i < N_SAMPLES)
    /\ Sleep("g95", 100, "g99")

\* cp2130_.disableCS(0, errcnt, errstr)
GetCurrent99 == CsWrite("g99", "disableCS", FALSE, "g100")

\* return currentCodeSum / (4.0 * N_SAMPLES): the quotient is a double, the
\* value returned is that double as a float.  The two roundings give the
\* float nearest to the exact quotient, the quotient of an integer below
\* 2^16 by 4 * N_SAMPLES being no midpoint of two floats and no nearer to one
\* than a double resolves.
GetCurrent100 ==
    /\ pc = "g100"
    /\ result' = FloatRound(currentCodeSum, 4 * N_SAMPLES, 0)
    /\ pc' = "idle"
    /\ UNCHANGED <<gpio, cs0, errcnt, op, prevOp, p0, d0, err0, log, reads, currentCodeSum, i>>

Next ==
    \/ CallAttach \/ Attach57 \/ Attach58 \/ Attach59 \/ Attach61
    \/ Attach62 \/ Attach63 \/ Attach64 \/ Attach65
    \/ CallDetach \/ Detach78 \/ Detach79 \/ Detach80 \/ Detach82
    \/ Detach83 \/ Detach84
    \/ CallGetCurrent \/ GetCurrent92 \/ GetCurrent93 \/ GetCurrent96
    \/ GetCurrent98 \/ GetCurrent99 \/ GetCurrent100

Spec == Init /\ [][Next]_vars

\* ---------------------------------------------------------------- claims
\* No driver call reported an error since the operation was called.
NoErr == errcnt = err0

Wait100ms == SleepEvent(100000)
IsLineWrite(e) == e.hi \cup e.lo # {}
PowerOnWrite(e) == e.us = 0 /\ e.hi = {} /\ e.lo = {1}
PowerOffWrite(e) == e.us = 0 /\ e.hi = {1} /\ e.lo = {}
DataOnWrite(e) == e.us = 0 /\ e.hi = {} /\ e.lo = {2}
DataOffWrite(e) == e.us = 0 /\ e.hi = {2} /\ e.lo = {}
BothOffWrite(e) == e.us = 0 /\ e.hi = {1, 2} /\ e.lo = {}

\* The normal attach sequence is at log[k + 1 .. k + 4], as far as log goes.
NormalSequenceFrom(k) ==
    /\ Len(log) <= k + 4
    /\ Len(log) >= k + 1 => PowerOnWrite(log[k + 1])
    /\ Len(log) >= k + 2 => log[k + 2] = Wait100ms
    /\ Len(log) >= k + 3 => DataOnWrite(log[k + 3])
    /\ Len(log) >= k + 4 => log[k + 4] = Wait100ms

\* The 12-bit code of a two-byte reading, 0 for any other reading.
Code12(read) == IF Len(read) = 2 THEN 16 * read[1] + (read[2] \div 16) ELSE 0

RECURSIVE SumCodes(_, _)
\* Code12(reads[from]) + ... + Code12(reads[Len(reads)])
SumCodes(rs, from) == IF from > Len(rs) THEN 0 ELSE Code12(rs[from]) + SumCodes(rs, from + 1)

\* C1: attach() called with power and data off and no driver error writes
\* power on, waits 100 ms, writes data on, waits 100 ms, and nothing else; the
\* data lines are on only once power is on.
C1_AttachFromOff ==
    (op = "attach" /\ ~p0 /\ ~d0 /\ NoErr) =>
        /\ NormalSequenceFrom(0)
        /\ pc = "idle" => Len(log) = 4
        /\ PowerOn <=> Len(log) >= 1
        /\ DataOn <=> Len(log) >= 3

C1_Witness ==
    /\ op = "attach" /\ ~p0 /\ ~d0 /\ NoErr /\ pc = "idle"
    /\ Len(log) = 4 /\ PowerOn /\ DataOn

\* C2: in every run of detach() that writes both data off and power off, the
\* data-off write is first, a 100 ms wait lies between the two, and a 100 ms
\* wait follows the power-off write.
C2_DetachDataBeforePower ==
    (/\ op = "detach"
     /\ \E k \in 1..Len(log) : DataOffWrite(log[k])
     /\ \E k \in 1..Len(log) : PowerOffWrite(log[k])) =>
        /\ Len(log) <= 4
        /\ DataOffWrite(log[1])
        /\ log[2] = Wait100ms
        /\ PowerOffWrite(log[3])
        /\ Len(log) = 4 => log[4] = Wait100ms
        /\ pc = "idle" => Len(log) = 4

C2_Witness ==
    /\ op = "detach" /\ pc = "idle" /\ Len(log) = 4
    /\ DataOffWrite(log[1]) /\ PowerOffWrite(log[3])
    /\ ~PowerOn /\ ~DataOn

\* C3: attach() called with power and data both on (no driver error) makes no
\* driver write and no wait, and leaves both lines on.
C3_AttachWhenOn ==
    (op = "attach" /\ p0 /\ d0 /\ NoErr) => log = <<>> /\ PowerOn /\ DataOn

C3_Witness == op = "attach" /\ p0 /\ d0 /\ NoErr /\ pc = "idle" /\ log = <<>>

\* C4: getCurrent() makes exactly 6 readings; the sum is that of the codes of
\* readings 2 to 6, each counted once, whatever the first reading was.
C4_DiscardOneAverageFive ==
    op = "getCurrent" =>
        /\ Len(reads) <= N_SAMPLES + 1
        /\ pc = "g95" => Len(reads) = i + 1
        /\ Len(reads) >= 1 /\ pc # "g93" => currentCodeSum = SumCodes(reads, 2)
        /\ pc \in {"g99", "g100", "idle"} =>
              /\ Len(reads) = 6
              /\ currentCodeSum = Code12(reads[2]) + Code12(reads[3]) + Code12(reads[4])
                                  + Code12(reads[5]) + Code12(reads[6])
        /\ pc = "idle" => result = FloatRound(SumCodes(reads, 2), 20, 0)

C4_Witness ==
    /\ op = "getCurrent" /\ pc = "idle" /\ Len(reads) = 6
    /\ reads[1] = <<255, 255>>
    /\ \A k \in 2..6 : reads[k] = <<18, 52>>
    /\ currentCodeSum = 1455

\* 1023.75
MaxCurrent == FloatRound(4095, 4, 0)

C6_State ==
    /\ pc # "idle" => ENABLED Next
    /\ (op = "getCurrent" /\ pc \in {"g95", "g99", "g100", "idle"}) =>
          LET good == {k \in 2..Len(reads) : Len(reads[k]) = 2}
              bad == {k \in 2..Len(reads) : Len(reads[k]) # 2}
          IN  /\ \A k \in bad : getRawCurrent(reads[k]) = 0
              /\ currentCodeSum = SumCodes([k \in 1..Len(reads) |->
                                     IF k \in good THEN reads[k] ELSE <<>>], 2)
    /\ (op = "getCurrent" /\ pc = "idle") =>
          /\ Len(reads) = 6
          /\ Len(log) = 3
          /\ log[1].fn = "selectCS"
          /\ log[3].fn = "disableCS"

\* C6: transport errors never stop an operation (the state part above), and
\* no step of the class resets or decreases the caller's error counter.
C6_ErrorsAccumulate == []C6_State /\ [][errcnt' >= errcnt]_vars

C6_Witness ==
    /\ op = "getCurrent" /\ pc = "idle"
    /\ errcnt > err0
    /\ Len(reads[2]) # 2
    /\ Len(reads[3]) = 2
    /\ currentCodeSum > 0

\* The step appends a line write to log.
WroteLines == Len(log') = Len(log) + 1 /\ IsLineWrite(log'[Len(log')])
\* The pins the step's write drives to the level they already had.
RedundantPins ==
    LET e == log'[Len(log')]
    IN  {n \in e.hi : gpio[n]} \cup {n \in e.lo : ~gpio[n]}

\* C7 as claimed: with no driver error, attach() and detach() never write a
\* line to the value it already has.
C7_NoRedundantLineWrite ==
    [][(WroteLines /\ errcnt' = err0') => RedundantPins = {}]_vars

\* C7 as amended: with no driver error, every write of attach() and detach()
\* changes a line; the writes of one line (power or data) always change that
\* line, and only the write of both lines off in attach()'s unusual state
\* drives one line (the one that was off already) to the value it has.
C7_EveryWriteChangesALine ==
    [][(WroteLines /\ errcnt' = err0') =>
          LET e == log'[Len(log')]
          IN  /\ gpio' # gpio
              /\ e.fn # "setGPIOs" => RedundantPins = {}
              /\ e.fn = "setGPIOs" =>
                    /\ op = "attach" /\ p0 # d0 /\ log = <<>>
                    /\ Cardinality(RedundantPins) = 1]_vars

C7_Witness ==
    /\ op = "attach" /\ p0 /\ ~d0 /\ NoErr /\ pc = "a59"
    /\ Len(log) = 1 /\ BothOffWrite(log[1])
    /\ ~PowerOn /\ ~DataOn

\* C8: attach() called with exactly one of power and data on (no driver
\* error) first writes GPIO.1 and GPIO.2 off in one write, waits 100 ms, and
\* then runs the normal sequence: power on, wait, data on, wait.
C8_AttachFromUnusual ==
    (op = "attach" /\ p0 # d0 /\ NoErr) =>
        /\ Len(log) >= 1 => BothOffWrite(log[1]) /\ log[1].fn = "setGPIOs"
        /\ Len(log) >= 2 => log[2] = Wait100ms
        /\ NormalSequenceFrom(2)
        /\ Len(log) \in 1..2 => ~PowerOn /\ ~DataOn
        /\ pc = "idle" => Len(log) = 6 /\ PowerOn /\ DataOn

C8_Witness ==
    /\ op = "attach" /\ ~p0 /\ d0 /\ NoErr /\ pc = "idle"
    /\ Len(log) = 6 /\ PowerOn /\ DataOn

\* C9: with no driver error, at every point of an attach() or detach() called
\* with power and data both on or both off, the data lines are on only while
\* power is on; and attach() called with data on and power off is in that
\* state only until its first write.
C9_DataOnlyWhilePower ==
    (op \in {"attach", "detach"} /\ NoErr) =>
        /\ p0 = d0 => (DataOn => PowerOn)
        /\ (op = "attach" /\ ~p0 /\ d0) => (DataOn /\ ~PowerOn => log = <<>>)

C9_Witness ==
    /\ op = "detach" /\ p0 /\ d0 /\ NoErr /\ pc = "d82"
    /\ PowerOn /\ ~DataOn

\* C10: with no driver error, from each of the four line states, both
\* statuses are true when attach() returns and false when detach() returns,
\* and a call of the operation that was called just before writes nothing;
\* the getters read the polarity the switch functions write.
C10_PostStates ==
    /\ \A v \in BOOLEAN :
          /\ getUSBPowerStatus(Driven(switchUSBPower(v))[1]) = v
          /\ getUSBDataStatus(Driven(switchUSBData(v))[2]) = v
          /\ getUSBPowerStatus(Driven(switchUSB(v))[1]) = v
          /\ getUSBDataStatus(Driven(switchUSB(v))[2]) = v
    /\ (op = "attach" /\ pc = "idle" /\ NoErr) => PowerOn /\ DataOn
    /\ (op = "detach" /\ pc = "idle" /\ NoErr) => ~PowerOn /\ ~DataOn
    /\ (op \in {"attach", "detach"} /\ prevOp = op /\ errcnt = 0) => log = <<>>

C10_Witness ==
    /\ op = "attach" /\ prevOp = "attach" /\ errcnt = 0 /\ pc = "idle"
    /\ log = <<>> /\ PowerOn /\ DataOn
====
